---- MODULE Spec2Model ----
(***************************************************************************)
(* Model of rasa-extras/trackerstore.py: the conversation-id codec         *)
(* (parse_conversation_id), the event-log helpers of ExtraTrackerStore     *)
(* (process_events, get_message_events, the counts, get_last_message_at,   *)
(* get_transitions) and the save / retrieve handlers working against an    *)
(* Elasticsearch client.                                                   *)
(*                                                                         *)
(* Python strings that the code inspects character by character (sender    *)
(* ids) are sequences of one-character strings.  Strings that the code     *)
(* only concatenates or compares (intent names, labels, the journey, the   *)
(* index name) are TLA+ strings.  Event names are sequences of tokens:     *)
(* "_" or a maximal run of characters without "_".                         *)
(***************************************************************************)
EXTENDS Integers, Sequences, FiniteSets, TLC

VARIABLES
    es_url,            \* constructor argument: TRUE when an es_url was given
    elasticsearch,     \* self.elasticsearch is not None
    event_broker,      \* self.event_broker is not None
    store,             \* content of the document store: key -> document or NoDoc
    last,              \* the last completed save / retrieve call and what it did
    pc,                \* per caller: position inside a concurrent save
    pending,           \* per caller: the update request built by save, not yet applied
    applied,           \* per key: tracker of the update the store applied last
    conversation_id,   \* argument of parse_conversation_id
    parsed,            \* outcome of parse_conversation_id
    events,            \* argument of get_transitions
    pos,               \* number of events the for loop of get_transitions consumed
    prevIntentName,    \* locals of get_transitions
    journey,
    transitions,
    level,
    walk_pc,           \* "loop" inside the for loop, "done" after the return
    proc_input,        \* argument of process_events as it was at the call
    proc_events,       \* the list process_events rewrites in place
    proc_key,          \* number of events the for loop of process_events consumed
    proc_pc            \* "loop" inside the for loop, "done" after the return

vars == <<es_url, elasticsearch, event_broker, store, last, pc, pending, applied,
          conversation_id, parsed,
          events, pos, prevIntentName, journey, transitions, level, walk_pc,
          proc_input, proc_events, proc_key, proc_pc>>

procVars == <<proc_input, proc_events, proc_key, proc_pc>>
adapterVars == <<es_url, elasticsearch, event_broker, store, last, pc, pending, applied>>
codecVars == <<conversation_id, parsed>>
walkVars == <<events, pos, prevIntentName, journey, transitions, level, walk_pc>>

-----------------------------------------------------------------------------
(* Bounds *)

MaxIdLen == 3
MaxEvents == 4
MaxLogLen == 2

-----------------------------------------------------------------------------
(* Outcomes of a Python call: a returned value or a raised exception *)

Returned(v) == [exc |-> "none", value |-> v]
Raised(e) == [exc |-> e, value |-> <<>>]
NotCalled == [exc |-> "not called", value |-> <<>>]
NoneValue == [py |-> "None"]

RECURSIVE SeqsUpTo(_, _)
SeqsUpTo(S, n) ==
    IF n = 0 THEN {<<>>}
    ELSE LET shorter == SeqsUpTo(S, n - 1)
         IN shorter \cup {Append(s, c) : s \in {t \in shorter : Len(t) = n - 1}, c \in S}

-----------------------------------------------------------------------------
(* Characters.  SUP2 stands for U+00B2 SUPERSCRIPT TWO: str.isnumeric()    *)
(* accepts it, int() does not.                                             *)

SUP2 == "SUPERSCRIPT TWO"
DecimalChars == {"0", "1", "2", "3", "4", "5", "6", "7", "8", "9"}
NumericChars == DecimalChars \cup {SUP2}

DigitValue(c) ==
    CASE c = "0" -> 0 [] c = "1" -> 1 [] c = "2" -> 2 [] c = "3" -> 3 [] c = "4" -> 4
      [] c = "5" -> 5 [] c = "6" -> 6 [] c = "7" -> 7 [] c = "8" -> 8 [] c = "9" -> 9

\* str.find(sub) for a one-character sub: lowest 0-based index, -1 when absent
Find(s, c) ==
    IF \E i \in 1..Len(s) : s[i] = c
    THEN (CHOOSE i \in 1..Len(s) : s[i] = c /\ \A j \in 1..(i - 1) : s[j] # c) - 1
    ELSE -1

\* s[a:b] and s[a:] with 0-based a, b inside the string
Slice(s, a, b) == SubSeq(s, a + 1, b)
SliceFrom(s, a) == SubSeq(s, a + 1, Len(s))

\* str.isnumeric(): at least one character and every character numeric
IsNumeric(s) == Len(s) > 0 /\ \A i \in 1..Len(s) : s[i] \in NumericChars

\* int(s) for a string that passed isnumeric(): the decimal value, or
\* ValueError when a character is not a decimal digit
RECURSIVE DecimalValue(_)
DecimalValue(s) ==
    IF Len(s) = 0 THEN 0
    ELSE 10 * DecimalValue(SubSeq(s, 1, Len(s) - 1)) + DigitValue(s[Len(s)])

IntOf(s) ==
    IF \A i \in 1..Len(s) : s[i] \in DecimalChars
    THEN Returned(DecimalValue(s))
    ELSE Raised("ValueError")

parse_conversation_id(cid) ==
    LET dash_pos == Find(cid, "-")
        bot_id == Slice(cid, 0, dash_pos)
    IN IF dash_pos >= 0 /\ IsNumeric(bot_id)
       THEN IF IntOf(bot_id).exc = "none"
            THEN Returned(<<IntOf(bot_id).value, SliceFrom(cid, dash_pos + 1)>>)
            ELSE Raised(IntOf(bot_id).exc)
       ELSE Returned(<<0, cid>>)

\* str(n) and the f-string of the index name
Str(n) == ToString(n)
IndexName(bot_id) == "bot-conversations-alias-" \o Str(bot_id)

-----------------------------------------------------------------------------
(* The codec on its own: every sender id up to MaxIdLen characters, and    *)
(* the ids the documentation names.                                        *)

IdAlphabet == {"0", "1", "4", "-", "a", SUP2}

NamedIds ==
    { <<"4", "2", "-", "a", "b", "c">>,
      <<"a", "b", "c", "-", "4", "2">>,
      <<"n", "o", "-", "d", "a", "s", "h", "-", "h", "e", "r", "e">>,
      <<"4", "2", "-", "a", "-", "b">> }

CodecIds == SeqsUpTo(IdAlphabet, MaxIdLen) \cup NamedIds

CodecInit ==
    /\ conversation_id \in CodecIds
    /\ parsed = NotCalled

ParseConversationId ==
    /\ parsed = NotCalled
    /\ parsed' = parse_conversation_id(conversation_id)
    /\ UNCHANGED conversation_id

-----------------------------------------------------------------------------
(* Events are the dicts of the serialised tracker: records whose optional  *)
(* keys are present or absent.  Timestamps are in units of 1/4000 second   *)
(* (so 6000 is 1.5 s and 250 is 0.0625 s).                                 *)

UserEvent(ts, parse_data) == [event |-> "user", timestamp |-> ts, parse_data |-> parse_data]
BotEvent(ts) == [event |-> "bot", timestamp |-> ts]
ActionEvent(ts, name) == [event |-> "action", timestamp |-> ts, name |-> name]

Intent(name) == [intent |-> [name |-> name, confidence |-> 1]]

\* 'intent' in event.get('parse_data', {}) and 'name' in event['parse_data']['intent']
HasIntentName(event) ==
    IF "parse_data" \in DOMAIN event
    THEN IF "intent" \in DOMAIN event.parse_data
         THEN "name" \in DOMAIN event.parse_data.intent
         ELSE FALSE
    ELSE FALSE

get_intent_name_with_level(intentName, lvl) == intentName \o "__" \o Str(lvl)

\* the locals of get_transitions before the loop
WalkStart ==
    [prevIntentName |-> "start", journey |-> "start__1", transitions |-> <<>>, level |-> 1]

LoopBody_anyLevel(st, event) ==
    IF HasIntentName(event)
    THEN LET intentName == event.parse_data.intent.name
         IN IF intentName = st.prevIntentName
            THEN st
            ELSE [prevIntentName |-> intentName,
                  journey |-> st.journey \o "->"
                              \o get_intent_name_with_level(intentName, st.level + 1),
                  transitions |-> Append(st.transitions,
                      [name |-> get_intent_name_with_level(st.prevIntentName, st.level)
                                \o "->" \o get_intent_name_with_level(intentName, st.level + 1)]),
                  level |-> st.level + 1]
    ELSE st

LoopBody_noDedup(st, event) ==
    IF HasIntentName(event)
    THEN [prevIntentName |-> event.parse_data.intent.name,
          journey |-> st.journey \o "->"
                      \o get_intent_name_with_level(event.parse_data.intent.name, st.level + 1),
          transitions |-> Append(st.transitions,
              [name |-> get_intent_name_with_level(st.prevIntentName, st.level)
                        \o "->"
                        \o get_intent_name_with_level(event.parse_data.intent.name, st.level + 1)]),
          level |-> st.level + 1]
    ELSE st

\* one iteration of the for loop of get_transitions
LoopBody(st, event) ==
    IF HasIntentName(event)
    THEN LET intentName == event.parse_data.intent.name
         IN IF intentName = st.prevIntentName /\ st.level # 1
            THEN st
            ELSE LET lvl == st.level + 1
                     key == get_intent_name_with_level(st.prevIntentName, lvl - 1)
                            \o "->" \o get_intent_name_with_level(intentName, lvl)
                 IN [prevIntentName |-> intentName,
                     journey |-> st.journey \o "->" \o get_intent_name_with_level(intentName, lvl),
                     transitions |-> Append(st.transitions, [name |-> key]),
                     level |-> lvl]
    ELSE st

\* the statements after the loop
LoopEnd(st) ==
    [prevIntentName |-> st.prevIntentName,
     journey |-> st.journey \o "->end",
     transitions |-> Append(st.transitions,
                            [name |-> get_intent_name_with_level(st.prevIntentName, st.level)
                                      \o "->end"]),
     level |-> st.level]

RECURSIVE WalkFrom(_, _)
WalkFrom(st, evs) ==
    IF Len(evs) = 0 THEN st ELSE WalkFrom(LoopBody(st, Head(evs)), Tail(evs))

get_transitions(evs) ==
    LET st == LoopEnd(WalkFrom(WalkStart, evs))
    IN [transitions |-> st.transitions, journey |-> st.journey]

-----------------------------------------------------------------------------
(* get_transitions statement by statement, over every event sequence of    *)
(* at most MaxEvents events.                                               *)

WalkEvents ==
    { UserEvent(4000, Intent("greet")),
      UserEvent(4000, Intent("goodbye")),
      UserEvent(4000, Intent("start")),
      UserEvent(4000, Intent("")),
      UserEvent(4000, [intent |-> [confidence |-> 0]]),
      UserEvent(4000, [text |-> "hi"]),
      BotEvent(4000) }

WalkLocals ==
    [prevIntentName |-> prevIntentName, journey |-> journey,
     transitions |-> transitions, level |-> level]

WalkAssign(st) ==
    /\ prevIntentName' = st.prevIntentName
    /\ journey' = st.journey
    /\ transitions' = st.transitions
    /\ level' = st.level

WalkInit ==
    /\ events \in SeqsUpTo(WalkEvents, MaxEvents)
    /\ pos = 0
    /\ prevIntentName = WalkStart.prevIntentName
    /\ journey = WalkStart.journey
    /\ transitions = WalkStart.transitions
    /\ level = WalkStart.level
    /\ walk_pc = "loop"

WalkEvent ==
    /\ walk_pc = "loop"
    /\ pos < Len(events)
    /\ WalkAssign(LoopBody(WalkLocals, events[pos + 1]))
    /\ pos' = pos + 1
    /\ UNCHANGED <<events, walk_pc>>

WalkReturn ==
    /\ walk_pc = "loop"
    /\ pos = Len(events)
    /\ WalkAssign(LoopEnd(WalkLocals))
    /\ walk_pc' = "done"
    /\ UNCHANGED <<events, pos>>

-----------------------------------------------------------------------------
(* The event-log helpers of ExtraTrackerStore                              *)

\* "".join of the tokens of an event name
RECURSIVE JoinTokens(_)
JoinTokens(tokens) ==
    IF Len(tokens) = 0 THEN "" ELSE Head(tokens) \o JoinTokens(Tail(tokens))

\* eventName.startswith('action_')
StartsWithAction(name) == Len(name) >= 2 /\ name[1] = "action" /\ name[2] = "_"

\* eventName.split('_', 1)[1] of a name that starts with 'action_'
SplitRest(name) == JoinTokens(SubSeq(name, 3, Len(name)))

\* base64.b64decode(text) on the payloads of the model: the decoded bytes,
\* or binascii.Error (incorrect padding)
b64decode(text) ==
    CASE text = "eyJ0eXBlIjoiZm9vIn0=" -> Returned("{\"type\":\"foo\"}")
      [] text = "eyJ0eXBlIjoxfQ==" -> Returned("{\"type\":1}")
      [] text = "e30=" -> Returned("{}")
      [] text = "MTI=" -> Returned("12")
      [] text = "Zm9v" -> Returned("foo")
      [] text = "eyJ0eXBlIjpudWxsfQ==" -> Returned("{\"type\":null}")
      [] text = "W10=" -> Returned("[]")
      [] text = "ImZvbyI=" -> Returned("\"foo\"")
      [] text = "" -> Returned("")
      [] OTHER -> Raised("binascii.Error")

\* json.loads(text) on the decoded payloads of the model
json_loads(text) ==
    CASE text = "{\"type\":\"foo\"}" -> Returned([json |-> "object", members |-> [type |-> "foo"]])
      [] text = "{\"type\":1}" -> Returned([json |-> "object", members |-> [type |-> 1]])
      [] text = "{}" -> Returned([json |-> "object", members |-> <<>>])
      [] text = "{\"type\":null}" -> Returned([json |-> "object", members |-> [type |-> NoneValue]])
      [] text = "[]" -> Returned([json |-> "array", items |-> <<>>])
      [] text = "\"foo\"" -> Returned([json |-> "string", string |-> "foo"])
      [] text = "12" -> Returned([json |-> "number", number |-> 12])
      [] OTHER -> Raised("JSONDecodeError")

\* parsedData['type']
TypeItem(parsedData) ==
    IF parsedData.json = "object"
    THEN IF parsedData.members # <<>>
         THEN Returned(parsedData.members.type)
         ELSE Raised("KeyError")
    ELSE Raised("TypeError")

\* the try block of process_events: json.loads(base64.b64decode(data[1]))['type']
DecodeType(text) ==
    IF b64decode(text).exc # "none" THEN b64decode(text)
    ELSE IF json_loads(b64decode(text).value).exc # "none" THEN json_loads(b64decode(text).value)
    ELSE TypeItem(json_loads(b64decode(text).value).value)

WithType(event, type) ==
    [f \in DOMAIN event \cup {"type"} |-> IF f = "type" THEN type ELSE event[f]]

ProcessEvent_noFallback(event) ==
    IF "name" \in DOMAIN event
    THEN IF event.name # <<>> /\ StartsWithAction(event.name)
         THEN IF DecodeType(SplitRest(event.name)).exc = "none"
              THEN WithType(event, DecodeType(SplitRest(event.name)).value)
              ELSE WithType(event, JoinTokens(event.name))
         ELSE event
    ELSE event

\* the body of the for loop of process_events
ProcessEvent(event) ==
    IF "name" \in DOMAIN event
    THEN IF event.name # <<>> /\ StartsWithAction(event.name)
         THEN IF DecodeType(SplitRest(event.name)).exc = "none"
              THEN WithType(event, DecodeType(SplitRest(event.name)).value)
              ELSE WithType(event, SplitRest(event.name))
         ELSE event
    ELSE event

process_events(evs) == [i \in 1..Len(evs) |-> ProcessEvent(evs[i])]

-----------------------------------------------------------------------------
(* process_events statement by statement, over every event list of at most *)
(* MaxLogLen events.                                                       *)

ProcEvents ==
    { ActionEvent(4000, <<"action", "_", "eyJ0eXBlIjoiZm9vIn0=">>),
      ActionEvent(4000, <<"action", "_", "eyJ0eXBlIjoxfQ==">>),
      ActionEvent(4000, <<"action", "_", "eyJ0eXBlIjpudWxsfQ==">>),
      ActionEvent(4000, <<"action", "_", "e30=">>),
      ActionEvent(4000, <<"action", "_", "W10=">>),
      ActionEvent(4000, <<"action", "_", "ImZvbyI=">>),
      ActionEvent(4000, <<"action", "_", "MTI=">>),
      ActionEvent(4000, <<"action", "_", "Zm9v">>),
      ActionEvent(4000, <<"action", "_", "plainstring">>),
      ActionEvent(4000, <<"action", "_", "a", "_", "b">>),
      ActionEvent(4000, <<"action", "_">>),
      ActionEvent(4000, <<"action">>),
      ActionEvent(4000, <<"utter", "_", "greet">>),
      ActionEvent(4000, <<"my", "_", "action", "_", "e30=">>),
      ActionEvent(4000, <<>>),
      [event |-> "action", name |-> <<"action", "_", "e30=">>, type |-> "old"],
      UserEvent(4000, Intent("greet")),
      BotEvent(4000) }

ProcInit ==
    /\ proc_input \in SeqsUpTo(ProcEvents, MaxLogLen)
    /\ proc_events = proc_input
    /\ proc_key = 0
    /\ proc_pc = "loop"

\* one iteration of the for loop of process_events
ProcessStep ==
    /\ proc_pc = "loop"
    /\ proc_key < Len(proc_events)
    /\ proc_events' = [proc_events EXCEPT ![proc_key + 1] = ProcessEvent(@)]
    /\ proc_key' = proc_key + 1
    /\ UNCHANGED <<proc_input, proc_pc>>

\* return events
ProcessReturn ==
    /\ proc_pc = "loop"
    /\ proc_key = Len(proc_events)
    /\ proc_pc' = "done"
    /\ UNCHANGED <<proc_input, proc_events, proc_key>>

ProcIdle ==
    /\ proc_input = <<>>
    /\ proc_events = <<>>
    /\ proc_key = 0
    /\ proc_pc = "loop"

IsMessage(event) == event.event \in {"user", "bot"}
IsUser(event) == event.event = "user"
IsBot(event) == event.event = "bot"

get_message_events(evs) == SelectSeq(evs, IsMessage)
get_customer_msg_count(evs) == Len(SelectSeq(evs, IsUser))
get_bot_msg_count(evs) == Len(SelectSeq(evs, IsBot))

\* round(1000 * t) for t given in units of 1/4000 second: ties go to the even integer
RoundMillis(t4) ==
    LET q == t4 \div 4
        r == t4 % 4
    IN IF r < 2 THEN q
       ELSE IF r > 2 THEN q + 1
       ELSE IF q % 2 = 0 THEN q ELSE q + 1

get_last_message_at(evs) ==
    RoundMillis(IF Len(evs) = 0 THEN 0
                ELSE IF "timestamp" \in DOMAIN evs[Len(evs)]
                     THEN evs[Len(evs)].timestamp
                     ELSE 0)

-----------------------------------------------------------------------------
(* The host framework's tracker (de)serialisation and event broadcast *)

\* json.loads(self.serialise_tracker(tracker)): the state dict of the tracker
serialise_tracker(tracker) == [sender_id |-> tracker.sender_id, events |-> tracker.events]

\* self.deserialise_tracker(sender_id, json.dumps(stored))
deserialise_tracker(sender_id, stored) == [sender_id |-> sender_id, events |-> stored.events]

\* self.stream_events(tracker): the events handed to the broker
stream_events(tracker) == Returned(tracker.events)

-----------------------------------------------------------------------------
(* The Elasticsearch client *)

NoDoc == [found |-> FALSE]
EmptyList == <<>>
Placeholder == [tracker |-> EmptyList]

DocFields ==
    {"tracker", "msgCount", "customerMsgCount", "botMsgCount",
     "transitions", "journey", "lastMessageAt"}

MergeDoc_keepStored(old, doc) ==
    [f \in DOMAIN old \cup DOMAIN doc |->
        IF f \in DOMAIN old /\ f # "tracker" THEN old[f] ELSE doc[f]]

MergeDoc_addCounts(old, doc) ==
    [f \in DOMAIN old \cup DOMAIN doc |->
        IF f \in DOMAIN doc
        THEN IF f = "msgCount" /\ f \in DOMAIN old THEN old[f] + doc[f] ELSE doc[f]
        ELSE old[f]]

\* partial-document merge: the fields of the request replace those of the
\* stored document, the other stored fields stay
MergeDoc(old, doc) ==
    [f \in DOMAIN old \cup DOMAIN doc |-> IF f \in DOMAIN doc THEN doc[f] ELSE old[f]]

\* Elasticsearch.update(index, id, body={'doc': ...}): merges into the stored
\* document; without an upsert clause a missing document is NotFoundError
EsUpdate(docs, request) ==
    LET key == <<request.index, request.id>>
    IN IF docs[key] = NoDoc
       THEN [exc |-> "NotFoundError", store |-> docs]
       ELSE [exc |-> "none",
             store |-> [docs EXCEPT ![key] = MergeDoc(docs[key], request.body.doc)]]

\* Elasticsearch.get(index, id)
EsGet(docs, request) ==
    LET key == <<request.index, request.id>>
    IN IF docs[key] = NoDoc
       THEN Raised("NotFoundError")
       ELSE Returned([_source |-> docs[key]])

-----------------------------------------------------------------------------
(* ExtraTrackerStore.save and ExtraTrackerStore.retrieve *)

ShouldStore_anyTenant(es, bot_id) == es /\ bot_id >= 0

\* the condition of the if statement of save
ShouldStore(es, bot_id) == es /\ bot_id > 0

\* the 'doc' of the update request
BuildDoc(tracker) ==
    LET json_tracker == [serialise_tracker(tracker) EXCEPT
                             !.events = process_events(serialise_tracker(tracker).events)]
        message_events == get_message_events(json_tracker.events)
        result == get_transitions(json_tracker.events)
    IN [tracker |-> json_tracker,
        msgCount |-> Len(message_events),
        customerMsgCount |-> get_customer_msg_count(message_events),
        botMsgCount |-> get_bot_msg_count(message_events),
        transitions |-> result.transitions,
        journey |-> result.journey,
        lastMessageAt |-> get_last_message_at(json_tracker.events)]

UpdateRequest(bot_id, cid, tracker) ==
    [op |-> "update", index |-> IndexName(bot_id), id |-> cid,
     body |-> [doc |-> BuildDoc(tracker)]]

GetRequest(bot_id, cid) == [op |-> "get", index |-> IndexName(bot_id), id |-> cid]

\* save up to the call of elasticsearch.update: the store requests it is
\* about to issue, or the exception that ends it
SaveRequests(es, tracker) ==
    LET key == parse_conversation_id(tracker.sender_id)
    IN IF key.exc # "none" THEN [exc |-> key.exc, requests |-> <<>>]
       ELSE IF ShouldStore(es, key.value[1])
            THEN [exc |-> "none",
                  requests |-> <<UpdateRequest(key.value[1], key.value[2], tracker)>>]
            ELSE [exc |-> "none", requests |-> <<>>]

\* the whole of save against the store content docs
SaveOutcome(es, docs, tracker) ==
    LET prepared == SaveRequests(es, tracker)
    IN IF prepared.requests = <<>>
       THEN [result |-> IF prepared.exc = "none" THEN Returned(NoneValue) ELSE Raised(prepared.exc),
             calls |-> <<>>, store |-> docs]
       ELSE LET answer == EsUpdate(docs, prepared.requests[1])
            IN [result |-> IF answer.exc = "none" THEN Returned(NoneValue) ELSE Raised(answer.exc),
                calls |-> prepared.requests, store |-> answer.store]

\* the whole of retrieve against the store content docs
RetrieveOutcome(es, docs, sender_id) ==
    IF es
    THEN LET key == parse_conversation_id(sender_id)
         IN IF key.exc # "none" THEN [result |-> Raised(key.exc), calls |-> <<>>]
            ELSE LET request == GetRequest(key.value[1], key.value[2])
                     response == EsGet(docs, request)
                 IN IF response.exc # "none"
                    THEN [result |-> Raised(response.exc), calls |-> <<request>>]
                    ELSE IF response.value._source.tracker = EmptyList
                         THEN [result |-> Returned(NoneValue), calls |-> <<request>>]
                         ELSE [result |-> Returned(deserialise_tracker(
                                              sender_id, response.value._source.tracker)),
                               calls |-> <<request>>]
    ELSE [result |-> Returned(NoneValue), calls |-> <<>>]

-----------------------------------------------------------------------------
(* The inputs of the adapter *)

SenderIds ==
    { <<"1", "-", "a">>,
      <<"0", "1", "-", "a">>,
      <<"2", "-", "a">>,
      <<"a">>,
      <<"0", "-", "a">>,
      <<SUP2, "-", "a">> }

EventLogs ==
    { <<>>,
      <<UserEvent(4000, Intent("greet"))>>,
      <<UserEvent(4000, Intent("greet")), BotEvent(4001),
        ActionEvent(6000, <<"action", "_", "eyJ0eXBlIjoiZm9vIn0=">>)>>,
      <<UserEvent(4000, Intent("greet")), UserEvent(4400, Intent("greet")),
        UserEvent(4800, Intent("goodbye")), BotEvent(5000),
        ActionEvent(250, <<"action", "_", "plainstring">>)>>,
      <<BotEvent(4003), [event |-> "action", name |-> <<"action", "_", "e30=">>]>> }

Trackers == [sender_id : SenderIds, events : EventLogs]

KeyOf(sender_id) ==
    <<IndexName(parse_conversation_id(sender_id).value[1]),
      parse_conversation_id(sender_id).value[2]>>

Keys == {KeyOf(s) : s \in {t \in SenderIds : parse_conversation_id(t).exc = "none"}}

Callers == {1, 2}

NoCall == [op |-> "none", arg |-> <<>>, calls |-> <<>>, published |-> NotCalled,
           result |-> NotCalled, again |-> FALSE]
NoRequest == [op |-> "none"]
NoTracker == [saved |-> FALSE, overwrote |-> FALSE]

\* ExtraTrackerStore.__init__: the client is kept only when a url was given
\* and the ping succeeded
Construct ==
    /\ es_url \in BOOLEAN
    /\ event_broker \in BOOLEAN
    /\ \E ping \in BOOLEAN : elasticsearch = (es_url /\ ping)
    /\ store \in [Keys -> {NoDoc, Placeholder}]
    /\ last = NoCall
    /\ pc = [c \in Callers |-> "idle"]
    /\ pending = [c \in Callers |-> NoRequest]
    /\ applied = [k \in Keys |-> NoTracker]

Save(tracker) ==
    LET outcome == SaveOutcome(elasticsearch, store, tracker)
    IN /\ store' = outcome.store
       /\ last' = [op |-> "save", arg |-> tracker, calls |-> outcome.calls,
                   published |-> IF event_broker THEN stream_events(tracker) ELSE NotCalled,
                   result |-> outcome.result,
                   again |-> IF last.op = "save" THEN last.arg = tracker ELSE FALSE]
       /\ UNCHANGED <<es_url, elasticsearch, event_broker, pc, pending, applied>>

Retrieve(sender_id) ==
    LET outcome == RetrieveOutcome(elasticsearch, store, sender_id)
    IN /\ last' = [op |-> "retrieve", arg |-> sender_id, calls |-> outcome.calls,
                   published |-> NotCalled, result |-> outcome.result, again |-> FALSE]
       /\ UNCHANGED <<es_url, elasticsearch, event_broker, store, pc, pending, applied>>

CodecIdle == conversation_id = <<>> /\ parsed = NotCalled
WalkIdle ==
    /\ events = <<>>
    /\ pos = 0
    /\ prevIntentName = WalkStart.prevIntentName
    /\ journey = WalkStart.journey
    /\ transitions = WalkStart.transitions
    /\ level = WalkStart.level
    /\ walk_pc = "loop"
AdapterIdle ==
    /\ es_url = FALSE
    /\ elasticsearch = FALSE
    /\ event_broker = FALSE
    /\ store = [k \in Keys |-> NoDoc]
    /\ last = NoCall
    /\ pc = [c \in Callers |-> "idle"]
    /\ pending = [c \in Callers |-> NoRequest]
    /\ applied = [k \in Keys |-> NoTracker]

Init == Construct /\ CodecIdle /\ WalkIdle /\ ProcIdle

SaveCall == \E tracker \in Trackers : Save(tracker)
RetrieveCall == \E sender_id \in SenderIds : Retrieve(sender_id)

Next ==
    \/ SaveCall /\ UNCHANGED <<codecVars, walkVars, procVars>>
    \/ RetrieveCall /\ UNCHANGED <<codecVars, walkVars, procVars>>

Spec == Init /\ [][Next]_vars

CodecSpecInit == CodecInit /\ AdapterIdle /\ WalkIdle /\ ProcIdle
CodecNext == ParseConversationId /\ UNCHANGED <<adapterVars, walkVars, procVars>>
CodecSpec == CodecSpecInit /\ [][CodecNext]_vars

WalkSpecInit == WalkInit /\ AdapterIdle /\ CodecIdle /\ ProcIdle
WalkNext ==
    \/ WalkEvent /\ UNCHANGED <<adapterVars, codecVars, procVars>>
    \/ WalkReturn /\ UNCHANGED <<adapterVars, codecVars, procVars>>
WalkSpec == WalkSpecInit /\ [][WalkNext]_vars

ProcSpecInit == ProcInit /\ AdapterIdle /\ CodecIdle /\ WalkIdle
ProcNext ==
    \/ ProcessStep /\ UNCHANGED <<adapterVars, codecVars, walkVars>>
    \/ ProcessReturn /\ UNCHANGED <<adapterVars, codecVars, walkVars>>
ProcSpec == ProcSpecInit /\ [][ProcNext]_vars

-----------------------------------------------------------------------------
(* Concurrent saves: each caller runs save up to the update request, and   *)
(* the store applies the requests one at a time in any order.              *)

ConcLogs == {evs \in EventLogs : Len(evs) \in {0, 1, 3}}
ConcTrackers == {t \in Trackers : t.events \in ConcLogs}

RequestKey(request) == <<request.index, request.id>>

\* save from its first statement to the call of elasticsearch.update
SaveBegin(c, tracker) ==
    LET prepared == SaveRequests(elasticsearch, tracker)
    IN /\ pc[c] = "idle"
       /\ IF prepared.requests # <<>>
          THEN /\ pc' = [pc EXCEPT ![c] = "update"]
               /\ pending' = [pending EXCEPT ![c] =
                                 [op |-> "update", request |-> prepared.requests[1],
                                  tracker |-> tracker]]
          ELSE UNCHANGED <<pc, pending>>
       /\ UNCHANGED <<es_url, elasticsearch, event_broker, store, last, applied>>

\* the store applies the update of caller c, and save returns or raises
SaveUpdate(c) ==
    LET answer == EsUpdate(store, pending[c].request)
        key == RequestKey(pending[c].request)
    IN /\ pc[c] = "update"
       /\ store' = answer.store
       /\ applied' = IF answer.exc = "none"
                     THEN [applied EXCEPT ![key] =
                              [saved |-> TRUE, tracker |-> pending[c].tracker,
                               overwrote |-> applied[key].saved]]
                     ELSE applied
       /\ pc' = [pc EXCEPT ![c] = "idle"]
       /\ pending' = [pending EXCEPT ![c] = NoRequest]
       /\ UNCHANGED <<es_url, elasticsearch, event_broker, last>>

ConcInit == Construct /\ CodecIdle /\ WalkIdle /\ ProcIdle
SaveBeginCall == \E c \in Callers : \E tracker \in ConcTrackers : SaveBegin(c, tracker)
SaveUpdateCall == \E c \in Callers : SaveUpdate(c)
ConcNext ==
    \/ SaveBeginCall /\ UNCHANGED <<codecVars, walkVars, procVars>>
    \/ SaveUpdateCall /\ UNCHANGED <<codecVars, walkVars, procVars>>
ConcSpec == ConcInit /\ [][ConcNext]_vars

-----------------------------------------------------------------------------
(* Properties of save and retrieve (specification Spec) *)

TenantOf(sender_id) == parse_conversation_id(sender_id).value[1]
LocalIdOf(sender_id) == parse_conversation_id(sender_id).value[2]
ParsesOk(sender_id) == parse_conversation_id(sender_id).exc = "none"

\* C1: save issues a store request if and only if a store connection is
\* configured and the tenant id parsed from the sender id is greater than 0;
\* it is then exactly one update, to index bot-conversations-alias-<tenantId>
\* with id localId, whose doc carries exactly the seven fields.  Otherwise
\* save issues no store request at all.
C1_SaveWritesIffStoreAndTenant ==
    last.op = "save" =>
        LET sender_id == last.arg.sender_id
            writes == elasticsearch /\ ParsesOk(sender_id) /\ TenantOf(sender_id) > 0
        IN /\ (last.calls # <<>>) <=> writes
           /\ writes =>
                /\ Len(last.calls) = 1
                /\ last.calls[1].op = "update"
                /\ last.calls[1].index
                       = "bot-conversations-alias-" \o ToString(TenantOf(sender_id))
                /\ last.calls[1].id = LocalIdOf(sender_id)
                /\ DOMAIN last.calls[1].body = {"doc"}
                /\ DOMAIN last.calls[1].body.doc = DocFields
           /\ (sender_id = <<"0", "1", "-", "a">> /\ elasticsearch) =>
                /\ last.calls[1].index = "bot-conversations-alias-1"
                /\ last.calls[1].id = <<"a">>

C1_Witness ==
    /\ last.op = "save"
    /\ last.arg.sender_id = <<"0", "1", "-", "a">>
    /\ Len(last.calls) = 1
    /\ last.calls[1].op = "update"

\* C2: after any save with tenantId > 0 and a connected store, a document
\* keyed by localId exists in the tenant index and holds the fields derived
\* from that tracker, also when no document existed before the save.
C2_SaveUpserts ==
    (/\ last.op = "save"
     /\ elasticsearch
     /\ ParsesOk(last.arg.sender_id)
     /\ TenantOf(last.arg.sender_id) > 0)
    => /\ store[KeyOf(last.arg.sender_id)] # NoDoc
       /\ \A f \in DocFields :
              store[KeyOf(last.arg.sender_id)][f] = BuildDoc(last.arg)[f]

\* C3: retrieve never propagates a store not-found failure to the caller:
\* a conversation without a document gives None.
C3_RetrieveMissingIsNone ==
    last.op = "retrieve" =>
        /\ last.result.exc # "NotFoundError"
        /\ (/\ elasticsearch
            /\ ParsesOk(last.arg)
            /\ store[KeyOf(last.arg)] = NoDoc) => last.result = Returned(NoneValue)

\* C4: with a connected store and a tenant-qualified sender id, a retrieve
\* that follows save(tracker) reads the (index, id) that save wrote and
\* returns a tracker tagged with the sender id whose events are the
\* transformed events save stored, or None when the stored tracker field is
\* an empty collection.
C4_RoundTrip ==
    [][ (/\ last.op = "save"
         /\ elasticsearch
         /\ ParsesOk(last.arg.sender_id)
         /\ TenantOf(last.arg.sender_id) > 0
         /\ last'.op = "retrieve"
         /\ last'.arg = last.arg.sender_id)
        => /\ Len(last'.calls) = 1
           /\ last'.calls[1].op = "get"
           /\ last'.calls[1].index = last.calls[1].index
           /\ last'.calls[1].id = last.calls[1].id
           /\ last'.result =
                 IF /\ store[KeyOf(last.arg.sender_id)] # NoDoc
                    /\ store[KeyOf(last.arg.sender_id)].tracker = EmptyList
                 THEN Returned(NoneValue)
                 ELSE Returned([sender_id |-> last.arg.sender_id,
                                events |-> process_events(last.arg.events)]) ]_vars

\* C6: when no store client was kept at construction (no url, or the ping
\* failed), no save or retrieve ever issues a store request, every save
\* completes without raising and still broadcasts when a broker is
\* configured, and every retrieve returns None.
C6_NoStoreDegrades ==
    ~elasticsearch =>
        /\ last.calls = <<>>
        /\ last.op = "save" =>
              /\ last.result = Returned(NoneValue)
              /\ event_broker => last.published = Returned(last.arg.events)
        /\ last.op = "retrieve" => last.result = Returned(NoneValue)

\* C12: a save of the tracker that the previous save was given (tenant id
\* above 0, store connected) leaves every stored document as the first save
\* left it and ends as the first did; the document is a function of the
\* event log, and transforming transformed events again changes nothing.
C12_SecondSaveChangesNothing ==
    (/\ last.op = "save"
     /\ last'.op = "save"
     /\ last'.arg = last.arg
     /\ elasticsearch
     /\ ParsesOk(last.arg.sender_id)
     /\ TenantOf(last.arg.sender_id) > 0)
    => /\ store' = store
       /\ last'.result = last.result
       /\ last'.calls = last.calls
       /\ store[KeyOf(last.arg.sender_id)] # NoDoc =>
              \A f \in DocFields :
                  store'[KeyOf(last.arg.sender_id)][f] = BuildDoc(last.arg)[f]
       /\ process_events(process_events(last.arg.events)) = process_events(last.arg.events)

C12_SaveIdempotent == [][C12_SecondSaveChangesNothing]_vars

C12_Witness ==
    /\ last.op = "save"
    /\ last.again
    /\ last.result = Returned(NoneValue)
    /\ Len(last.calls) = 1
    /\ Len(last.arg.events) = 3
    /\ store[KeyOf(last.arg.sender_id)].msgCount = 2

-----------------------------------------------------------------------------
(* Properties of concurrent saves (specification ConcSpec) *)

\* C5: the stored document of a conversation equals, in each of the seven
\* fields, the document derived from the tracker of the update the store
\* applied last, and only an update addressed to a conversation changes
\* that conversation's document.
C5_LastAppliedHolds ==
    \A k \in Keys :
        applied[k].saved =>
            /\ store[k] # NoDoc
            /\ \A f \in DocFields : store[k][f] = BuildDoc(applied[k].tracker)[f]

C5_OnlyOwnUpdateChanges ==
    \A k \in Keys :
        store'[k] # store[k] =>
            \E c \in Callers :
                /\ pc[c] = "update"
                /\ pc'[c] = "idle"
                /\ RequestKey(pending[c].request) = k
                /\ KeyOf(pending[c].tracker.sender_id) = k
                /\ \A f \in DocFields : store'[k][f] = BuildDoc(pending[c].tracker)[f]

C5_LastWriteWins == [](C5_LastAppliedHolds) /\ [][C5_OnlyOwnUpdateChanges]_vars

C5_Witness ==
    \E k \in Keys :
        /\ applied[k].saved
        /\ applied[k].overwrote
        /\ applied[k].tracker.sender_id = <<"1", "-", "a">>
        /\ \E c \in Callers :
              /\ pc[c] = "update"
              /\ pending[c].tracker.sender_id = <<"1", "-", "a">>
              /\ pending[c].tracker # applied[k].tracker
        /\ \E j \in Keys : j # k /\ applied[j].saved

-----------------------------------------------------------------------------
(* Properties of parse_conversation_id (specification CodecSpec) *)

\* C7: with a first '-' whose prefix is entirely numeric the result is
\* (int(prefix), text after that dash); in every other case it is
\* (0, senderId).
C7_ParseRule ==
    parsed # NotCalled =>
        LET cid == conversation_id
            dashes == {i \in 1..Len(cid) : cid[i] = "-"}
            first == CHOOSE i \in dashes : \A j \in dashes : i <= j
        IN IF dashes # {} /\ first > 1
              /\ \A i \in 1..(first - 1) : cid[i] \in NumericChars
           THEN /\ parsed.exc = "none"
                /\ parsed.value[2] = SubSeq(cid, first + 1, Len(cid))
                /\ (\A i \in 1..(first - 1) : cid[i] \in DecimalChars)
                      => parsed.value[1] = DecimalValue(SubSeq(cid, 1, first - 1))
           ELSE parsed = Returned(<<0, cid>>)

\* C8: parse_conversation_id never raises and always gives a tenant id >= 0.
C8_ParseNeverRaises ==
    parsed # NotCalled => parsed.exc = "none" /\ parsed.value[1] >= 0

-----------------------------------------------------------------------------
(* Properties of get_transitions (specification WalkSpec) *)

Label(name, lvl) == name \o "__" \o ToString(lvl)

IntentNameOf(event) == event.parse_data.intent.name

RECURSIVE IntentsOf(_)
IntentsOf(evs) ==
    IF Len(evs) = 0 THEN <<>>
    ELSE IF HasIntentName(Head(evs))
         THEN <<IntentNameOf(Head(evs))>> \o IntentsOf(Tail(evs))
         ELSE IntentsOf(Tail(evs))

\* C9: in every iteration of the loop, an event whose intent name equals
\* prevIntent while level # 1 changes nothing; every other event with an
\* intent name adds 1 to level, appends the one transition
\* label(prevIntent, level-1)->label(intent, level) and one journey label,
\* and sets prevIntent; level never grows without a transition appended.
C9_Step ==
    (walk_pc = "loop" /\ pos' = pos + 1) =>
        /\ (level' # level) =>
              /\ level' = level + 1
              /\ Len(transitions') = Len(transitions) + 1
        /\ (Len(transitions') # Len(transitions)) => level' = level + 1
        /\ (/\ HasIntentName(events[pos + 1])
            /\ IntentNameOf(events[pos + 1]) # "") =>
              LET intent == IntentNameOf(events[pos + 1])
              IN IF intent = prevIntentName /\ level # 1
                 THEN UNCHANGED <<transitions, journey, level, prevIntentName>>
                 ELSE /\ level' = level + 1
                      /\ transitions' = Append(transitions,
                            [name |-> Label(prevIntentName, level' - 1)
                                      \o "->" \o Label(intent, level')])
                      /\ journey' = journey \o "->" \o Label(intent, level')
                      /\ prevIntentName' = intent

C9_Dedup == [][C9_Step]_vars

C9_Witness ==
    /\ walk_pc = "loop"
    /\ pos = 3
    /\ IntentsOf(SubSeq(events, 1, 3)) = <<"greet", "goodbye", "goodbye">>
    /\ level = 3
    /\ Len(transitions) = 2

\* C10 as stated: for the intents [greet, greet, goodbye] the second greet
\* is not collapsed, so both greet events produce a transition, the first
\* being start__1->greet__2.
C10_SecondGreetKept ==
    (walk_pc = "done" /\ IntentsOf(events) = <<"greet", "greet", "goodbye">>) =>
        /\ Len(transitions) = 4
        /\ transitions[1].name = "start__1->greet__2"
        /\ transitions[2].name = "greet__2->greet__3"

\* C10 amended: for the intents [greet, greet, goodbye] the second greet is
\* collapsed, because level is already 2 after the first greet; the result is
\* start__1->greet__2, greet__2->goodbye__3, goodbye__3->end.  The level = 1
\* exception only spares a first intent that is itself named "start".
C10_SecondGreetCollapsed ==
    walk_pc = "done" =>
        /\ IntentsOf(events) = <<"greet", "greet", "goodbye">> =>
              /\ transitions = << [name |-> "start__1->greet__2"],
                                  [name |-> "greet__2->goodbye__3"],
                                  [name |-> "goodbye__3->end"] >>
              /\ journey = "start__1->greet__2->goodbye__3->end"
        /\ IntentsOf(events) = <<"start", "start">> =>
              transitions = << [name |-> "start__1->start__2"],
                               [name |-> "start__2->end"] >>

C10_Witness ==
    /\ walk_pc = "done"
    /\ IntentsOf(events) = <<"greet", "greet", "goodbye">>
    /\ Len(transitions) = 3

-----------------------------------------------------------------------------
(* Properties of process_events (specification ProcSpec) *)

\* the type the claim gives for the text after "action_"
ClaimedType(rest) ==
    CASE rest = "eyJ0eXBlIjoiZm9vIn0=" -> "foo"
      [] rest = "eyJ0eXBlIjoxfQ==" -> 1
      [] rest = "eyJ0eXBlIjpudWxsfQ==" -> NoneValue
      [] OTHER -> rest

\* the text of an event name after its first "_", "" when there is none
RECURSIVE AfterFirstUnderscore(_)
AfterFirstUnderscore(name) ==
    IF Len(name) = 0 THEN ""
    ELSE IF Head(name) = "_" THEN JoinTokens(Tail(name))
    ELSE AfterFirstUnderscore(Tail(name))

ClaimedEvent(event) ==
    IF "name" \in DOMAIN event
    THEN IF Len(event.name) >= 2
         THEN IF event.name[1] = "action" /\ event.name[2] = "_"
              THEN [f \in DOMAIN event \cup {"type"} |->
                       IF f = "type" THEN ClaimedType(AfterFirstUnderscore(event.name))
                       ELSE event[f]]
              ELSE event
         ELSE event
    ELSE event

\* C11: process_events returns without raising a list of the same length
\* and order in which every event named action_<rest> has type set to the
\* type field of the base64-decoded JSON of <rest> when that decodes to an
\* object with a type field and to <rest> itself otherwise, with its other
\* fields kept, and every other event is as it was.
C11_BestEffortDecode ==
    /\ Len(proc_events) = Len(proc_input)
    /\ \A i \in 1..Len(proc_input) :
          proc_events[i] = IF i <= proc_key THEN ClaimedEvent(proc_input[i])
                           ELSE proc_input[i]
    /\ proc_pc = "done" => proc_key = Len(proc_input)

C11_Witness ==
    /\ proc_pc = "done"
    /\ Len(proc_input) = 2
    /\ proc_input[1] = ActionEvent(4000, <<"action", "_", "eyJ0eXBlIjoiZm9vIn0=">>)
    /\ proc_events[1] = [event |-> "action", timestamp |-> 4000, type |-> "foo",
                         name |-> <<"action", "_", "eyJ0eXBlIjoiZm9vIn0=">>]
    /\ proc_input[2] = ActionEvent(4000, <<"action", "_", "a", "_", "b">>)
    /\ proc_events[2] = [event |-> "action", timestamp |-> 4000, type |-> "a_b",
                         name |-> <<"action", "_", "a", "_", "b">>]

\* an event that carries a non-empty intent name at parse_data.intent.name
IntentBearing(event) ==
    IF "parse_data" \in DOMAIN event
    THEN IF "intent" \in DOMAIN event.parse_data
         THEN IF "name" \in DOMAIN event.parse_data.intent
              THEN event.parse_data.intent.name # ""
              ELSE FALSE
         ELSE FALSE
    ELSE FALSE

\* C13: an event without a non-empty intent name (the name present but
\* empty, or no parse_data, no intent or no name) changes no builder state:
\* no transition, no journey label, no level increment.
C13_Step ==
    (/\ walk_pc = "loop"
     /\ pos' = pos + 1
     /\ ~IntentBearing(events[pos + 1]))
    => UNCHANGED <<transitions, journey, level, prevIntentName>>

C13_EmptyNameIgnored == [][C13_Step]_vars

\* the intent names of the model's events, for the labels of a chain
ChainNames == {"start", "greet", "goodbye", ""}

\* the label sequences (labels number i + 1 onwards, "end" last) for which
\* trs[i..] is a chain that starts at fromLabel, the label number i
RECURSIVE ChainLabels(_, _, _)
ChainLabels(trs, i, fromLabel) ==
    IF i = Len(trs)
    THEN IF trs[i].name = fromLabel \o "->end" THEN {<<"end">>} ELSE {}
    ELSE UNION { { <<Label(name, i + 1)>> \o rest :
                       rest \in ChainLabels(trs, i + 1, Label(name, i + 1)) } :
                 name \in {n \in ChainNames :
                              trs[i].name = fromLabel \o "->" \o Label(n, i + 1)} }

RECURSIVE JoinArrow(_)
JoinArrow(labels) ==
    IF Len(labels) = 1 THEN labels[1]
    ELSE labels[1] \o "->" \o JoinArrow(Tail(labels))

\* the returned transitions are one chain start__1 -> ... -> end whose k-th
\* label has level k, as many transitions as the final level, and the
\* journey is the "->"-join of the chain's labels
C14_Chain ==
    walk_pc = "done" =>
        /\ Len(transitions) >= 1
        /\ Len(transitions) = level
        /\ ChainLabels(transitions, 1, "start__1") # {}
        /\ \A chain \in ChainLabels(transitions, 1, "start__1") :
              journey = JoinArrow(<<"start__1">> \o chain)

\* C14: for every event sequence the result of get_transitions is a single
\* consistent chain (C14_Chain), and with zero intent-bearing events it is
\* journey "start__1->end" with the single transition start__1->end.
C14_ChainAndEmptyCase ==
    /\ C14_Chain
    /\ (walk_pc = "done" /\ \A i \in 1..Len(events) : ~IntentBearing(events[i])) =>
          /\ journey = "start__1->end"
          /\ transitions = <<[name |-> "start__1->end"]>>

====
